---- MODULE Spec2Model ----
(***************************************************************************)
(* Model of the SuperStore KPI dashboard script (src/app.py).              *)
(*                                                                         *)
(* The script is re-executed top to bottom on every user interaction.     *)
(* One action of the model is one such execution ("pass"): the cascading  *)
(* filter loop, the date slider, filter_data, the empty check, the KPI    *)
(* totals, the time grouping, the product ranking and the export.         *)
(*                                                                         *)
(* Abstractions: a DataFrame is a sequence of rows, a row is a function   *)
(* from column name to value and carries its pandas index label under     *)
(* "index"; Sales, Quantity and Profit are integers and a ratio is an     *)
(* exact fraction (floating point rounding is not modelled); an Order     *)
(* Date is the day of the year 2023 (1 = Sunday 2023-01-01); Python's     *)
(* string order is the position in SortedStrings.                         *)
(***************************************************************************)
EXTENDS Integers, Sequences, FiniteSets, TLC

VARIABLES df_original, options, selected_filters, date_range, df, notice,
          kpi_metrics, selected_kpi, time_aggregation, time_grouped,
          top_products, reached, stale, loaded

vars == <<df_original, options, selected_filters, date_range, df, notice,
          kpi_metrics, selected_kpi, time_aggregation, time_grouped,
          top_products, reached, stale, loaded>>

\* ------------------------------------------------------------------ bounds

\* Largest number of pool rows drawn into a base table.
MaxRows == 2

\* ------------------------------------------------------------ program data

All == "All"

\* A missing cell (NaN / None) of a categorical column.
Null == "<NA>"

\* Marker of a value that the pass did not compute.
NotRun == "not run"

filter_columns == <<"Region", "State", "City", "Category", "Sub-Category">>

TopN == 10

KpiTitles == <<"Total Sales", "Units Sold", "Total Profit", "Profit Margin">>

TimeAggregations == <<"Daily", "Weekly", "Monthly">>

kpi_mapping ==
  [t \in {"Total Sales", "Units Sold", "Total Profit", "Profit Margin"} |->
     CASE t = "Total Sales" -> "Sales"
       [] t = "Units Sold" -> "Quantity"
       [] t = "Total Profit" -> "Profit"
       [] OTHER -> "Profit Margin"]

\* Python's order on the strings that occur in the modelled tables.
SortedStrings ==
  <<"Albany", "CA", "Chair", "Chairs", "Desk", "East", "Furniture", "LA", "NY",
    "P01", "P02", "P03", "P04", "P05", "P06", "P07", "P08", "P09", "P10",
    "Phone", "Phones", "Tech", "West">>

Rank(s) == CHOOSE i \in 1..Len(SortedStrings) : SortedStrings[i] = s

\* ------------------------------------------------------------ the workbook

MkRow(region, state, city, cat, sub, prod, date, sales, qty, profit) ==
  [c \in {"Region", "State", "City", "Category", "Sub-Category",
          "Product Name", "Order Date", "Sales", "Quantity", "Profit"} |->
     CASE c = "Region" -> region
       [] c = "State" -> state
       [] c = "City" -> city
       [] c = "Category" -> cat
       [] c = "Sub-Category" -> sub
       [] c = "Product Name" -> prod
       [] c = "Order Date" -> date
       [] c = "Sales" -> sales
       [] c = "Quantity" -> qty
       [] OTHER -> profit]

\* Rows a workbook may hold: a missing State, Sales of exactly 0 with a
\* positive, a zero and a negative Profit, dates in two months and three weeks.
RowPool ==
  << MkRow("East", "NY", "Albany", "Furniture", "Chairs", "Chair", 1, 100, 2, 20),
     MkRow("West", "CA", "Albany", "Furniture", "Chairs", "Phone", 2, 0, 1, 5),
     MkRow("East", Null, "LA", "Furniture", "Chairs", "Phone", 32, 0, 0, 0),
     MkRow("West", "NY", "Albany", "Furniture", "Phones", "Desk", 8, 0, 2, -10),
     MkRow("East", "NY", "Albany", "Tech", "Chairs", "Desk", 2, 10, 1, 1) >>

\* Ten further products, so that a view can hold more than TopN products.
PadName(k) == SortedStrings[9 + k]

PadRow(k) ==
  MkRow("East", "NY", "Albany", "Furniture", "Chairs", PadName(k), 8,
        IF k = 3 THEN 30 ELSE 10,
        IF k = 5 THEN 7 ELSE 2,
        IF k = 7 THEN -5 ELSE IF k = 2 THEN 3 ELSE 1)

PadRows == [k \in 1..10 |-> PadRow(k)]

RECURSIVE PickRows(_, _)
PickRows(S, i) ==
  IF i > Len(RowPool) THEN << >>
  ELSE IF i \in S THEN <<RowPool[i]>> \o PickRows(S, i + 1)
       ELSE PickRows(S, i + 1)

\* pd.read_excel gives the rows a RangeIndex 0..n-1.
WithIndex(rows) ==
  [i \in 1..Len(rows) |-> rows[i] @@ ("index" :> (i - 1))]

\* The base tables: up to MaxRows pool rows, and one pool row followed by the
\* ten further products.
Workbooks ==
  LET cores(n) == { PickRows(S, 1) :
                      S \in { T \in SUBSET (1..Len(RowPool)) :
                                Cardinality(T) \in 1..n } }
  IN  { WithIndex(c) : c \in cores(MaxRows) }
        \cup { WithIndex(c \o PadRows) : c \in cores(1) }

\* ---------------------------------------------------------------- helpers

Range(s) == { s[i] : i \in 1..Len(s) }

\* sorted(...) of a set of strings.
RECURSIVE sorted(_)
sorted(S) ==
  IF S = {} THEN << >>
  ELSE LET m == CHOOSE x \in S : \A y \in S : Rank(x) <= Rank(y)
       IN  <<m>> \o sorted(S \ {m})

\* Whether the cell v of column col is missing; the numeric and date columns
\* of the modelled workbooks have no missing cells.
IsMissing(col, v) ==
  col \in Range(filter_columns) \cup {"Product Name"} /\ v = Null

\* df[column].dropna().unique() as a set.
DistinctNonNull(rows, column) ==
  { rows[i][column] : i \in 1..Len(rows) } \ {Null}

\* df[df[col] == value]: a comparison with a missing cell is False.
WhereEq(rows, col, value) ==
  SelectSeq(rows, LAMBDA r : r[col] # Null /\ r[col] = value)

RECURSIVE SumCol(_, _)
SumCol(rows, column) ==
  IF rows = << >> THEN 0
  ELSE Head(rows)[column] + SumCol(Tail(rows), column)

\* ------------------------------------------------- cascading filter options

\* filter_options with "and" for "or" in its test of the predecessor.
filter_options_and(data, column, prev_col, prev_selection) ==
  LET opts == sorted(DistinctNonNull(data, column))
  IN  IF prev_selection = All /\ prev_col = All
      THEN <<All>> \o opts
      ELSE <<All>> \o sorted(DistinctNonNull(WhereEq(data, prev_col, prev_selection), column))

\* filter_options that never looks at the predecessor's selection.
filter_options_whole(data, column, prev_col, prev_selection) ==
  <<All>> \o sorted(DistinctNonNull(data, column))

filter_options(data, column, prev_col, prev_selection) ==
  LET opts == sorted(DistinctNonNull(data, column))
  IN  IF prev_selection = All \/ prev_col = All
      THEN <<All>> \o opts
      ELSE <<All>> \o sorted(DistinctNonNull(WhereEq(data, prev_col, prev_selection), column))

\* st.sidebar.selectbox(label, options) without a key: the widget is identified
\* by its label and its options.  With the options it was last drawn with it
\* returns the value held by the front end; with other options it is a new
\* widget and returns its default, options[0].
\* A selectbox that hands back the held value whatever its options are.
selectbox_keep(label, opts, shown, front) ==
  IF label \in DOMAIN front THEN front[label] ELSE opts[1]

selectbox(label, opts, shown, front) ==
  IF label \in DOMAIN shown /\ shown[label] = opts THEN front[label] ELSE opts[1]

\* selected_filters.get(prev_col, "All")
DictGet(d, key, default) == IF key \in DOMAIN d THEN d[key] ELSE default

\* The loop over filter_columns, from position i on.  acc.sel is
\* selected_filters as built so far, acc.opts the option lists drawn so far.
RECURSIVE filter_loop(_, _, _, _, _)
filter_loop(data, i, acc, shown, front) ==
  IF i > Len(filter_columns) THEN acc
  ELSE LET col == filter_columns[i]
           prev_col == IF i > 1 THEN filter_columns[i - 1] ELSE All
           prev_selection == DictGet(acc.sel, prev_col, All)
           opts == filter_options(data, col, prev_col, prev_selection)
           value == selectbox(col, opts, shown, front)
       IN  filter_loop(data, i + 1,
                       [sel |-> acc.sel @@ (col :> value),
                        opts |-> acc.opts @@ (col :> opts)],
                       shown, front)

EmptyDict == [x \in {} |-> All]

\* ------------------------------------------------------------- date slider

MinOf(S) == CHOOSE x \in S : \A y \in S : x <= y

MaxOf(S) == CHOOSE x \in S : \A y \in S : x >= y

OrderDates(data) == { data[i]["Order Date"] : i \in 1..Len(data) }

min_date(data) == MinOf(OrderDates(data))

max_date(data) == MaxOf(OrderDates(data))

default_date(data) == <<min_date(data), max_date(data)>>

\* Positions the two handles of the range slider can be dragged to: days of
\* [min_date, max_date] with the lower handle never above the upper one.
\* The model offers the days on which some row of the table is dated.
SliderDays(data) == OrderDates(data)

SliderValues(data) ==
  { <<f, t>> \in SliderDays(data) \X SliderDays(data) :
      min_date(data) <= f /\ f <= t /\ t <= max_date(data) }

\* ------------------------------------------------------------- filter_data

\* The loop over filters.items(), from position i of the insertion order
\* (the order of filter_columns).
RECURSIVE apply_filters(_, _, _)
apply_filters(df_filtered, filters, i) ==
  IF i > Len(filter_columns) THEN df_filtered
  ELSE LET key == filter_columns[i]
           value == filters[key]
       IN  IF value # All
           THEN apply_filters(WhereEq(df_filtered, key, value), filters, i + 1)
           ELSE apply_filters(df_filtered, filters, i + 1)

\* The lower bound left out.
DateLowerOk_none(d, from_date) == TRUE

DateLowerOk(d, from_date) == d >= from_date

\* The upper bound taken exclusive.
DateUpperOk_strict(d, to_date) == d < to_date

DateUpperOk(d, to_date) == d <= to_date

filter_data(data, filters, from_date, to_date) ==
  LET df_filtered == apply_filters(data, filters, 1)
  IN  SelectSeq(df_filtered,
                LAMBDA r : DateLowerOk(r["Order Date"], from_date)
                           /\ DateUpperOk(r["Order Date"], to_date))

\* df.copy() and boolean indexing give filter_data's result its own storage:
\* assigning a column to the result does not write into the frame passed in.
\* The result shares the storage of the frame passed in when no row is dropped.
FilteredIsCopy_shared == FALSE

FilteredIsCopy == TRUE

\* ------------------------------------------------------------ float ratios

\* A float is a fraction n/d with d > 0 in lowest terms, or inf (1/0),
\* -inf (-1/0), or NaN.
RECURSIVE Gcd(_, _)
Gcd(a, b) == IF b = 0 THEN a ELSE Gcd(b, a % b)

Abs(x) == IF x < 0 THEN -x ELSE x

Fin(n, d) ==
  LET g == Gcd(Abs(n), Abs(d))
      sg == IF d < 0 THEN -1 ELSE 1
  IN  [k |-> "fin", n |-> sg * (n \div g), d |-> sg * (d \div g)]

Inf == [k |-> "inf", n |-> 1, d |-> 0]

NegInf == [k |-> "inf", n |-> -1, d |-> 0]

NaN == [k |-> "nan", n |-> 0, d |-> 0]

Num(v) == Fin(v, 1)

\* a / b * 100 on floats: x/0 is inf or -inf by the sign of x, 0/0 is NaN.
RatioPct(a, b) ==
  IF b # 0 THEN Fin(a * 100, b)
  ELSE IF a > 0 THEN Inf
  ELSE IF a < 0 THEN NegInf
  ELSE NaN

\* Series.fillna(0) replaces NaN, and only NaN.
fillna(x, v) == IF x.k = "nan" THEN Num(v) ELSE x

\* a <= b on floats other than NaN.
Le(a, b) ==
  IF a.k = "inf" /\ b.k = "inf" THEN a.n <= b.n
  ELSE a.n * b.d <= b.n * a.d

\* ------------------------------------------------------------- KPI totals

kpi_metrics_of(view) ==
  [t \in Range(KpiTitles) |->
     CASE t = "Total Sales" -> Num(SumCol(view, "Sales"))
       [] t = "Units Sold" -> Num(SumCol(view, "Quantity"))
       [] t = "Total Profit" -> Num(SumCol(view, "Profit"))
       [] OTHER -> IF SumCol(view, "Sales") # 0
                   THEN RatioPct(SumCol(view, "Profit"), SumCol(view, "Sales"))
                   ELSE Num(0)]

\* ---------------------------------------------------------- period columns

MonthEnds == <<31, 59, 90, 120, 151, 181, 212, 243, 273, 304, 334, 365>>

\* dt.to_period("M").astype(str): the label "2023-mm".
YearMonth(d) == <<2023, 1 + Cardinality({ i \in 1..12 : MonthEnds[i] < d })>>

\* dt.to_period("W").astype(str): the label "monday/sunday" of the week that
\* holds the day (day 2 is Monday 2023-01-02).
YearWeek(d) == LET wd == (d + 5) % 7 IN <<d - wd, d - wd + 6>>

AddPeriodColumns(rows) ==
  [i \in 1..Len(rows) |->
     rows[i] @@ ("Year-Month" :> YearMonth(rows[i]["Order Date"]))
             @@ ("Year-Week" :> YearWeek(rows[i]["Order Date"]))]

time_col_of(agg) ==
  CASE agg = "Daily" -> "Order Date"
    [] agg = "Weekly" -> "Year-Week"
    [] OTHER -> "Year-Month"

\* ----------------------------------------------------------------- groupby

\* The sort position of a group key: groupby sorts its keys ascending.
KeyOrd(col, key) ==
  CASE col = "Order Date" -> key
    [] col = "Year-Week" -> key[1] + 1000
    [] col = "Year-Month" -> key[1] * 100 + key[2]
    [] OTHER -> Rank(key)

RECURSIVE SortKeys(_, _)
SortKeys(col, S) ==
  IF S = {} THEN << >>
  ELSE LET m == CHOOSE x \in S : \A y \in S : KeyOrd(col, x) <= KeyOrd(col, y)
       IN  <<m>> \o SortKeys(col, S \ {m})

\* The keys of all rows but the first.
GroupKeys_skip(view, col) ==
  { view[i][col] : i \in { j \in 2..Len(view) : ~IsMissing(col, view[j][col]) } }

\* The keys groupby(col) forms its groups for; a missing key forms none.
GroupKeys(view, col) ==
  { view[i][col] : i \in { j \in 1..Len(view) : ~IsMissing(col, view[j][col]) } }

GroupMembers(view, col, key) == SelectSeq(view, LAMBDA r : r[col] = key)

\* df.groupby(col).agg({"Sales": "sum", "Quantity": "sum", "Profit": "sum"})
\* .reset_index()
groupby_sum(view, col) ==
  LET keys == SortKeys(col, GroupKeys(view, col))
  IN  [g \in 1..Len(keys) |->
         LET members == GroupMembers(view, col, keys[g])
         IN  (col :> keys[g])
             @@ ("Sales" :> SumCol(members, "Sales"))
             @@ ("Quantity" :> SumCol(members, "Quantity"))
             @@ ("Profit" :> SumCol(members, "Profit"))]

\* grouped["Profit Margin"] = (grouped["Profit"] / grouped["Sales"] * 100).fillna(0)
profit_margin(g) == fillna(RatioPct(g["Profit"], g["Sales"]), 0)

with_profit_margin(groups) ==
  [g \in 1..Len(groups) |-> groups[g] @@ ("Profit Margin" :> profit_margin(groups[g]))]

\* The float in column col of an aggregate row.
Metric(row, col) == IF col = "Profit Margin" THEN row[col] ELSE Num(row[col])

\* --------------------------------------------------------------- nlargest

RemoveAt(s, i) == SubSeq(s, 1, i - 1) \o SubSeq(s, i + 1, Len(s))

\* The largest value, and among equal values the last occurrence.
FirstLargest_last(rows, col) ==
  CHOOSE i \in 1..Len(rows) :
    /\ \A j \in 1..Len(rows) : Le(Metric(rows[j], col), Metric(rows[i], col))
    /\ \A j \in (i + 1)..Len(rows) : Metric(rows[j], col) # Metric(rows[i], col)

\* The position nlargest takes next: the largest value, and among equal
\* values the first occurrence (keep="first").
FirstLargest(rows, col) ==
  CHOOSE i \in 1..Len(rows) :
    /\ \A j \in 1..Len(rows) : Le(Metric(rows[j], col), Metric(rows[i], col))
    /\ \A j \in 1..(i - 1) : Metric(rows[j], col) # Metric(rows[i], col)

\* DataFrame.nlargest(n, col)
RECURSIVE nlargest(_, _, _)
nlargest(n, rows, col) ==
  IF n = 0 \/ rows = << >> THEN << >>
  ELSE LET i == FirstLargest(rows, col)
       IN  <<rows[i]>> \o nlargest(n - 1, RemoveAt(rows, i), col)

\* ----------------------------------------------------------------- a pass

Stages == {"filter_options", "slider", "filter_data", "notice", "kpi_metrics",
           "time_grouped", "trend_chart", "top_products", "ranking_chart",
           "export"}

\* An empty check that never finds the view empty.
is_empty_never(view) == FALSE

\* df.empty
is_empty(view) == view = << >>

\* One execution of the script: base is df_original, shown the option lists
\* the selectboxes were last drawn with, front the values the front end holds
\* for them, range the slider's value, kpi and agg the values of the two
\* selectboxes of the main page.  The result names the value of every
\* variable after the pass; stale (kept for the analysis, not by the script) is
\* the set of sidebar selectboxes whose held value is not among the options
\* computed in this pass.
Pass(base, shown, front, range, kpi, agg) ==
  LET acc == filter_loop(base, 1, [sel |-> EmptyDict, opts |-> EmptyDict], shown, front)
      view == filter_data(base, acc.sel, range[1], range[2])
      common == [options |-> acc.opts, selected_filters |-> acc.sel,
                 date_range |-> range,
                 stale |-> { c \in DOMAIN front : front[c] \notin Range(acc.opts[c]) }]
  IN  IF is_empty(view)
      THEN \* st.warning(...); st.stop()
           common @@
           [df_original |-> base, df |-> view, notice |-> "no data",
            kpi_metrics |-> NotRun, selected_kpi |-> NotRun,
            time_aggregation |-> NotRun, time_grouped |-> NotRun,
            top_products |-> NotRun,
            reached |-> {"filter_options", "slider", "filter_data", "notice"}]
      ELSE LET withCols == AddPeriodColumns(view)
               time_col == time_col_of(agg)
               selected_kpi_col == kpi_mapping[kpi]
           IN  common @@
               [df_original |-> IF FilteredIsCopy \/ Len(view) # Len(base)
                                THEN base
                                ELSE AddPeriodColumns(base),
                df |-> withCols, notice |-> NotRun,
                kpi_metrics |-> kpi_metrics_of(view),
                selected_kpi |-> kpi, time_aggregation |-> agg,
                time_grouped |-> with_profit_margin(groupby_sum(withCols, time_col)),
                top_products |->
                  nlargest(TopN,
                           with_profit_margin(groupby_sum(withCols, "Product Name")),
                           selected_kpi_col),
                reached |-> Stages \ {"notice"}]

Apply(r) ==
  /\ df_original' = r.df_original
  /\ options' = r.options
  /\ selected_filters' = r.selected_filters
  /\ date_range' = r.date_range
  /\ df' = r.df
  /\ notice' = r.notice
  /\ kpi_metrics' = r.kpi_metrics
  /\ selected_kpi' = r.selected_kpi
  /\ time_aggregation' = r.time_aggregation
  /\ time_grouped' = r.time_grouped
  /\ top_products' = r.top_products
  /\ reached' = r.reached
  /\ stale' = r.stale
  /\ loaded' = loaded

\* A selectbox of the main page that the last pass did not draw has lost its
\* state and comes back with its first option.
KpiFront == IF selected_kpi = NotRun THEN KpiTitles[1] ELSE selected_kpi

AggFront == IF time_aggregation = NotRun THEN TimeAggregations[1] ELSE time_aggregation

\* The first execution: load_data(), every widget at its default.  loaded
\* (kept for the analysis, not by the script) is the table as load_data
\* returned it.
Init ==
  \E base \in Workbooks :
    LET r == Pass(base, EmptyDict, EmptyDict, default_date(base),
                  KpiTitles[1], TimeAggregations[1])
    IN  /\ df_original = r.df_original
        /\ options = r.options
        /\ selected_filters = r.selected_filters
        /\ date_range = r.date_range
        /\ df = r.df
        /\ notice = r.notice
        /\ kpi_metrics = r.kpi_metrics
        /\ selected_kpi = r.selected_kpi
        /\ time_aggregation = r.time_aggregation
        /\ time_grouped = r.time_grouped
        /\ top_products = r.top_products
        /\ reached = r.reached
        /\ stale = r.stale
        /\ loaded = base

\* The user picks value in the sidebar selectbox of column col.
SelectFilter(col, value) ==
  /\ value \in Range(options[col])
  /\ value # selected_filters[col]
  /\ Apply(Pass(df_original, options, [selected_filters EXCEPT ![col] = value],
                date_range, KpiFront, AggFront))

\* The user drags the handles of the date slider.
SetDateRange(from_date, to_date) ==
  /\ <<from_date, to_date>> \in SliderValues(df_original)
  /\ <<from_date, to_date>> # date_range
  /\ Apply(Pass(df_original, options, selected_filters,
                <<from_date, to_date>>, KpiFront, AggFront))

\* The user picks the KPI to visualize; the selectbox is drawn only by a pass
\* that got past the empty check.
SelectKpi(kpi) ==
  /\ selected_kpi # NotRun
  /\ kpi # selected_kpi
  /\ Apply(Pass(df_original, options, selected_filters, date_range, kpi, AggFront))

SelectTimeAggregation(agg) ==
  /\ time_aggregation # NotRun
  /\ agg # time_aggregation
  /\ Apply(Pass(df_original, options, selected_filters, date_range, KpiFront, agg))

Next ==
  \/ \E i \in 1..Len(filter_columns) :
       \E value \in Range(options[filter_columns[i]]) :
         SelectFilter(filter_columns[i], value)
  \/ \E f \in SliderDays(df_original), t \in SliderDays(df_original) :
       SetDateRange(f, t)
  \/ \E kpi \in Range(KpiTitles) : SelectKpi(kpi)
  \/ \E agg \in Range(TimeAggregations) : SelectTimeAggregation(agg)

Spec == Init /\ [][Next]_vars

\* The pipeline below the slider handed an arbitrary pair of dates, also one
\* with from_date after to_date, which the slider itself never delivers.
HandDateRange(from_date, to_date) ==
  /\ <<from_date, to_date>> # date_range
  /\ Apply(Pass(df_original, options, selected_filters,
                <<from_date, to_date>>, KpiFront, AggFront))

NextDirect ==
  \/ \E i \in 1..Len(filter_columns) :
       \E value \in Range(options[filter_columns[i]]) :
         SelectFilter(filter_columns[i], value)
  \/ \E f \in OrderDates(df_original), t \in OrderDates(df_original) :
       HandDateRange(f, t)

SpecDirect == Init /\ [][NextDirect]_vars

\* ------------------------------------------------------------------ claims

PrevCol(i) == filter_columns[i - 1]

\* The rows of the base table that position i of the cascade draws from.
ScopeRows(i) ==
  { k \in 1..Len(df_original) :
      \/ i = 1
      \/ selected_filters[PrevCol(i)] = All
      \/ df_original[k][PrevCol(i)] = selected_filters[PrevCol(i)] }

\* C1: the option list of the dimension at position i is "All" followed by the
\* distinct non-null values of that dimension in ascending order, taken over
\* the whole base table when i is the first position or the selection of
\* position i-1 is "All", and over the rows whose dimension i-1 equals that
\* selection otherwise; no other selection enters.
C1_OptionLists ==
  \A i \in 1..Len(filter_columns) :
    LET col == filter_columns[i]
        opts == options[col]
    IN  /\ opts[1] = All
        /\ \A a, b \in 2..Len(opts) : a < b => Rank(opts[a]) < Rank(opts[b])
        /\ { opts[a] : a \in 2..Len(opts) }
             = { df_original[k][col] : k \in ScopeRows(i) } \ {Null}

\* A selected predecessor cuts the option list of its successor short.
C1_Witness ==
  \E i \in 2..Len(filter_columns) :
    /\ selected_filters[PrevCol(i)] # All
    /\ Len(options[filter_columns[i]])
         < 1 + Cardinality(DistinctNonNull(df_original, filter_columns[i]))

\* C2: a selection whose held value is not in the option list computed in the
\* pass is "All" after that pass, and after every pass each selection is a
\* member of the option list computed for it.
C2_NoDanglingSelection ==
  /\ \A c \in stale : selected_filters[c] = All
  /\ \A i \in 1..Len(filter_columns) :
       selected_filters[filter_columns[i]] \in Range(options[filter_columns[i]])

\* Region went to "West" while a State that no West row has was selected.
C2_Witness ==
  /\ "State" \in stale
  /\ selected_filters["Region"] = "West"
  /\ selected_filters["State"] = All

BaseColumns == DOMAIN df_original[1]

\* The positions of the base rows that the selections and the date range admit.
Admitted ==
  { k \in 1..Len(df_original) :
      /\ \A i \in 1..Len(filter_columns) :
           \/ selected_filters[filter_columns[i]] = All
           \/ df_original[k][filter_columns[i]] = selected_filters[filter_columns[i]]
      /\ date_range[1] <= df_original[k]["Order Date"]
      /\ df_original[k]["Order Date"] <= date_range[2] }

\* C3: the view holds exactly the base rows that equal the selection on every
\* dimension not set to "All" and are dated within [from, to], both ends
\* included: each admitted row once, unchanged, and no other row.
C3_ViewIsExactlyAdmitted ==
  /\ Len(df) = Cardinality(Admitted)
  /\ { df[j]["index"] : j \in 1..Len(df) } = { df_original[k]["index"] : k \in Admitted }
  /\ \A j \in 1..Len(df) : \A k \in 1..Len(df_original) :
       df[j]["index"] = df_original[k]["index"]
         => \A c \in BaseColumns : df[j][c] = df_original[k][c]

\* A narrowed range and a selection keep a row dated from and a row dated to
\* and drop other rows.
C3_Witness ==
  /\ date_range # default_date(df_original)
  /\ \E i \in 1..Len(filter_columns) : selected_filters[filter_columns[i]] # All
  /\ \E j \in 1..Len(df) : df[j]["Order Date"] = date_range[1]
  /\ \E j \in 1..Len(df) : df[j]["Order Date"] = date_range[2]
  /\ Len(df) < Len(df_original)

\* The pass got past the empty check.
Ran == notice = NotRun

AggStages == {"kpi_metrics", "time_grouped", "trend_chart", "top_products",
              "ranking_chart", "export"}

C5_ZeroSalesZeroMargin ==
  Ran => /\ \A g \in 1..Len(time_grouped) :
              time_grouped[g]["Sales"] = 0 => time_grouped[g]["Profit Margin"] = Num(0)
         /\ \A g \in 1..Len(top_products) :
              top_products[g]["Sales"] = 0 => top_products[g]["Profit Margin"] = Num(0)

\* The product names of the view.
Products ==
  { df[j]["Product Name"] : j \in { k \in 1..Len(df) : df[k]["Product Name"] # Null } }

\* The value of the ranking metric for product p, from the rows of the view.
ProductValue(p) ==
  LET rows == SelectSeq(df, LAMBDA r : r["Product Name"] = p)
      col == kpi_mapping[selected_kpi]
  IN  IF col = "Profit Margin"
      THEN fillna(RatioPct(SumCol(rows, "Profit"), SumCol(rows, "Sales")), 0)
      ELSE Num(SumCol(rows, col))

Returned == { top_products[g]["Product Name"] : g \in 1..Len(top_products) }

\* C6: the ranking returns min(10, number of products) rows, one per product,
\* in descending order of the metric; no product left out has a larger value
\* than a returned one; among equal values the name ascending decides both
\* the order and which product is returned.
C6_TopProductsRanking ==
  Ran =>
    /\ Len(top_products) = IF Cardinality(Products) < TopN THEN Cardinality(Products) ELSE TopN
    /\ Returned \subseteq Products
    /\ Cardinality(Returned) = Len(top_products)
    /\ \A g \in 1..Len(top_products) :
         Metric(top_products[g], kpi_mapping[selected_kpi])
           = ProductValue(top_products[g]["Product Name"])
    /\ \A g, h \in 1..Len(top_products) :
         g < h =>
           LET vg == ProductValue(top_products[g]["Product Name"])
               vh == ProductValue(top_products[h]["Product Name"])
           IN  /\ Le(vh, vg)
               /\ vg = vh => Rank(top_products[g]["Product Name"])
                               < Rank(top_products[h]["Product Name"])
    /\ \A q \in Products \ Returned : \A g \in 1..Len(top_products) :
         LET vg == ProductValue(top_products[g]["Product Name"])
             vq == ProductValue(q)
         IN  /\ Le(vq, vg)
             /\ vg = vq => Rank(top_products[g]["Product Name"]) < Rank(q)

\* More than ten products, and the one left out ties with a returned one.
C6_Witness ==
  /\ Ran
  /\ Cardinality(Products) > TopN
  /\ Len(top_products) = TopN
  /\ \E q \in Products \ Returned :
       ProductValue(q) = ProductValue(top_products[TopN]["Product Name"])
  /\ \E g \in 1..(TopN - 1) :
       ProductValue(top_products[g]["Product Name"])
         = ProductValue(top_products[g + 1]["Product Name"])

TimeCol == time_col_of(time_aggregation)

\* The number of rows of the view in each group of time_grouped.
GroupSizes ==
  [g \in 1..Len(time_grouped) |->
     [n |-> Cardinality({ j \in 1..Len(df) : df[j][TimeCol] = time_grouped[g][TimeCol] })]]

\* C7: the groups of the time aggregation partition the view: every row falls
\* in exactly one group, the group sizes add up to the number of rows, and the
\* group sums of Sales, Quantity and Profit add up to the KPI totals.
C7_TimeGroupsPartitionView ==
  Ran =>
    /\ \A j \in 1..Len(df) :
         Cardinality({ g \in 1..Len(time_grouped) :
                         time_grouped[g][TimeCol] = df[j][TimeCol] }) = 1
    /\ SumCol(GroupSizes, "n") = Len(df)
    /\ Num(SumCol(time_grouped, "Sales")) = kpi_metrics["Total Sales"]
    /\ Num(SumCol(time_grouped, "Quantity")) = kpi_metrics["Units Sold"]
    /\ Num(SumCol(time_grouped, "Profit")) = kpi_metrics["Total Profit"]

\* Weekly groups, more than one, one of them with several rows.
C7_Witness ==
  /\ Ran
  /\ time_aggregation = "Weekly"
  /\ Len(time_grouped) >= 2
  /\ \E g \in 1..Len(time_grouped) : GroupSizes[g].n >= 2

\* C8: a pass whose view is empty ends with the "no data" notice, which is a
\* warning and no error, and reaches none of KPI totals, time aggregation,
\* product ranking, charts and export; a pass reaches these only with a
\* non-empty view.
C8_EmptyViewStops ==
  /\ df = << >> =>
       /\ notice = "no data"
       /\ reached \cap AggStages = {}
       /\ kpi_metrics = NotRun
       /\ time_grouped = NotRun
       /\ top_products = NotRun
  /\ reached \cap AggStages # {} => df # << >>

\* Selections that no row satisfies together: the view is empty.
C8_Witness ==
  /\ df = << >>
  /\ notice = "no data"
  /\ "filter_data" \in reached

\* C9: after any sequence of passes the base table has the rows and the
\* columns it was loaded with.
C9_BaseTableUnchanged == df_original = loaded

\* A pass has added the period columns to a view that holds every base row.
C9_Witness ==
  /\ Ran
  /\ Len(df) = Len(df_original)
  /\ \A j \in 1..Len(df) : {"Year-Month", "Year-Week"} \subseteq DOMAIN df[j]
  /\ \A k \in 1..Len(df_original) :
       {"Year-Month", "Year-Week"} \cap DOMAIN df_original[k] = {}

NoNullDimension ==
  \A k \in 1..Len(df_original) : \A i \in 1..Len(filter_columns) :
    df_original[k][filter_columns[i]] # Null

Constrained ==
  { i \in 1..Len(filter_columns) : selected_filters[filter_columns[i]] # All }

\* C10 as stated: with no null dimension value, selections drawn from the
\* offered options and the full date span, the view is non-empty.
C10_OfferedOptionsNeverEmpty ==
  (NoNullDimension /\ date_range = default_date(df_original)
     /\ C2_NoDanglingSelection)
    => df # << >>

\* C10 as amended: under the same conditions the view is non-empty when at
\* most one dimension is constrained or the constrained dimensions are two
\* neighbours of the order.
C10_NeighboursNeverEmpty ==
  (NoNullDimension /\ date_range = default_date(df_original)
     /\ C2_NoDanglingSelection
     /\ \/ Cardinality(Constrained) <= 1
        \/ \E i \in 2..Len(filter_columns) : Constrained = {i - 1, i})
    => df # << >>

\* Two neighbouring dimensions are constrained and the view keeps some rows
\* and drops others.
C10_Witness ==
  /\ NoNullDimension
  /\ date_range = default_date(df_original)
  /\ \E i \in 2..Len(filter_columns) : Constrained = {i - 1, i}
  /\ df # << >>
  /\ Len(df) < Len(df_original)

====
